---- MODULE Spec2Model ----
(***************************************************************************)
(* Model of data_wang.py: the per-file extractor parse_source (with its    *)
(* helpers check_fila3, any_number, parse_granza) and the aggregator       *)
(* parse_data.                                                             *)
(*                                                                         *)
(* A Python str is a sequence of characters, each written as a string: a  *)
(* printable ASCII character as itself, tab, newline, form feed and        *)
(* carriage return by their escapes, any other character by its code point *)
(* as "<U+00A0>".  A csv row (fila) is a sequence of such strings;         *)
(* Python's 0-based fila[k] is fila[k+1].  The file is decoded as          *)
(* ISO 8859-1, so the characters of a field are the code points 0..255.    *)
(***************************************************************************)
EXTENDS Integers, Sequences, FiniteSets, TLC

VARIABLES filepath, reader, numlinea, res, pc, exc, files, data, dpc

vars == <<filepath, reader, numlinea, res, pc, exc, files, data, dpc>>

(* Bounds of the model. *)
MaxRows == 5
MaxFiles == 2

(* Python's None: a value no str (sequence of single characters) equals. *)
None == <<"None">>

(***************************************************************************)
(* str primitives used by the program.                                     *)
(***************************************************************************)
(* the ISO 8859-1 characters that str.split() and str.strip() take as      *)
(* whitespace                                                              *)
Whitespace ==
  { "\t", "\n", "<U+000B>", "\f", "\r", "<U+001C>",
    "<U+001D>", "<U+001E>", "<U+001F>", " ", "<U+0085>", "<U+00A0>" }

(* the ISO 8859-1 characters for which char.isdigit() is True: 0-9 and the *)
(* superscripts 2, 3 and 1                                                 *)
Digits ==
  { "0", "1", "2", "3", "4", "5", "6", "7", "8", "9",
    "<U+00B2>", "<U+00B3>", "<U+00B9>" }

(* the ISO 8859-1 characters that str.upper() changes into one character, *)
(* and that character, position by position                                *)
LowerCase ==
  << "a", "b", "c", "d", "e", "f", "g", "h",
     "i", "j", "k", "l", "m", "n", "o", "p",
     "q", "r", "s", "t", "u", "v", "w", "x",
     "y", "z", "<U+00B5>", "<U+00E0>", "<U+00E1>", "<U+00E2>", "<U+00E3>", "<U+00E4>",
     "<U+00E5>", "<U+00E6>", "<U+00E7>", "<U+00E8>", "<U+00E9>", "<U+00EA>", "<U+00EB>", "<U+00EC>",
     "<U+00ED>", "<U+00EE>", "<U+00EF>", "<U+00F0>", "<U+00F1>", "<U+00F2>", "<U+00F3>", "<U+00F4>",
     "<U+00F5>", "<U+00F6>", "<U+00F8>", "<U+00F9>", "<U+00FA>", "<U+00FB>", "<U+00FC>", "<U+00FD>",
     "<U+00FE>", "<U+00FF>" >>

UpperCase ==
  << "A", "B", "C", "D", "E", "F", "G", "H",
     "I", "J", "K", "L", "M", "N", "O", "P",
     "Q", "R", "S", "T", "U", "V", "W", "X",
     "Y", "Z", "<U+039C>", "<U+00C0>", "<U+00C1>", "<U+00C2>", "<U+00C3>", "<U+00C4>",
     "<U+00C5>", "<U+00C6>", "<U+00C7>", "<U+00C8>", "<U+00C9>", "<U+00CA>", "<U+00CB>", "<U+00CC>",
     "<U+00CD>", "<U+00CE>", "<U+00CF>", "<U+00D0>", "<U+00D1>", "<U+00D2>", "<U+00D3>", "<U+00D4>",
     "<U+00D5>", "<U+00D6>", "<U+00D8>", "<U+00D9>", "<U+00DA>", "<U+00DB>", "<U+00DC>", "<U+00DD>",
     "<U+00DE>", "<U+0178>" >>

(* char.isdigit() *)
isdigit(char) == char \in Digits

(* char.upper(): the sharp s becomes "SS", a character out of LowerCase is *)
(* kept                                                                    *)
upper_char(char) ==
  IF \E k \in 1..Len(LowerCase) : LowerCase[k] = char
    THEN <<UpperCase[CHOOSE k \in 1..Len(LowerCase) : LowerCase[k] = char]>>
    ELSE IF char = "<U+00DF>" THEN <<"S", "S">> ELSE <<char>>

(* str.upper() *)
RECURSIVE upper(_)
upper(cad) ==
  IF cad = <<>> THEN <<>> ELSE upper_char(Head(cad)) \o upper(Tail(cad))

(* str.startswith(prefix) *)
startswith(cad, prefix) ==
  /\ Len(prefix) <= Len(cad)
  /\ SubSeq(cad, 1, Len(prefix)) = prefix

(* The pieces of cad between separator characters, empty pieces kept:      *)
(* cad.split(" ") is SplitOn(cad, {" "}).                                  *)
RECURSIVE SplitOn(_, _)
SplitOn(cad, seps) ==
  IF cad = <<>> THEN << <<>> >>
  ELSE IF Head(cad) \in seps THEN << <<>> >> \o SplitOn(Tail(cad), seps)
  ELSE LET r == SplitOn(Tail(cad), seps)
       IN  << <<Head(cad)>> \o Head(r) >> \o Tail(r)

(* cad.split(" ") *)
split_sp(cad) == SplitOn(cad, {" "})

(* cad.split(): runs of whitespace separate, no empty token *)
split(cad) == SelectSeq(SplitOn(cad, Whitespace), LAMBDA t : t # <<>>)

(* " ".join(tokens) *)
RECURSIVE join(_)
join(tokens) ==
  IF tokens = <<>> THEN <<>>
  ELSE IF Len(tokens) = 1 THEN Head(tokens)
  ELSE Head(tokens) \o <<" ">> \o join(Tail(tokens))

(* tokens[k:] for a 0-based k >= 0 *)
from(tokens, k) == SubSeq(tokens, k + 1, Len(tokens))

(* tokens[:k] for a 0-based k >= 0 *)
upto(tokens, k) == SubSeq(tokens, 1, IF k < Len(tokens) THEN k ELSE Len(tokens))

(* cad.replace(old, ""): every non-overlapping occurrence, left to right *)
RECURSIVE replace(_, _)
replace(cad, old) ==
  IF old = <<>> \/ cad = <<>> THEN cad
  ELSE IF startswith(cad, old)
         THEN replace(SubSeq(cad, Len(old) + 1, Len(cad)), old)
         ELSE <<Head(cad)>> \o replace(Tail(cad), old)

RECURSIVE lstrip(_)
lstrip(cad) ==
  IF cad # <<>> /\ Head(cad) \in Whitespace THEN lstrip(Tail(cad)) ELSE cad

RECURSIVE rstrip(_)
rstrip(cad) ==
  IF cad # <<>> /\ cad[Len(cad)] \in Whitespace
    THEN rstrip(SubSeq(cad, 1, Len(cad) - 1)) ELSE cad

(* cad.strip() *)
strip(cad) == rstrip(lstrip(cad))

(***************************************************************************)
(* Literals of the program and of the sample exports.                      *)
(***************************************************************************)
sTiter == <<"T","i","t","e","r">>
sForce == <<"F","o","r","c","e">>
sAverage == <<"A","v","e","r","a","g","e">>
sCV == <<"C","V","%">>
sREPSOL == <<"R","E","P","S","O","L">>
sLO == <<"L","O">>
sLOTE == <<"L","O","T","E">>
slote == <<"l","o","t","e">>
s2378 == <<"2","3","7","8">>
s23 == <<"2","3">>
s78 == <<"7","8">>
s050 == <<"0","5","0">>
s001 == <<"0","0","1">>
sE == <<"E">>
sx == <<"x">>

(***************************************************************************)
(* Helpers of the program.                                                 *)
(***************************************************************************)
(* "Titer" in fila and "Force" in fila: membership among the columns *)
check_fila3(fila) ==
  /\ \E i \in 1..Len(fila) : fila[i] = sTiter
  /\ \E i \in 1..Len(fila) : fila[i] = sForce

any_number(cad) == \E i \in 1..Len(cad) : isdigit(cad[i])

(* parse_granza: exc is TRUE when tokens[2] raises IndexError *)
parse_granza(cad) ==
  LET tokens == split_sp(cad)
  IN  IF Len(tokens) > 1
        THEN IF Len(tokens) < 3
               THEN [exc |-> TRUE, granza |-> <<>>]
               ELSE IF any_number(tokens[3])
                      THEN [exc |-> FALSE, granza |-> join(from(tokens, 3))]
                      ELSE [exc |-> FALSE, granza |-> join(from(tokens, 2))]
        ELSE [exc |-> FALSE, granza |-> <<>>]

(***************************************************************************)
(* parse_source: one iteration of the loop over the rows.                  *)
(***************************************************************************)
res0(path) ==
  [fecha |-> None, codigo |-> None, lote |-> None, granza |-> None,
   nominal |-> None, titulo |-> None, CVtitulo |-> None, elong |-> None,
   CVelong |-> None, ten |-> None, CVten |-> None, source |-> path]

(* numlinea == 2 *)
fila2(r, fila) ==
  IF Len(fila) < 15 \/ split(fila[4]) = <<>>
    THEN [exc |-> "IndexError", numlinea |-> 2, res |-> r]
    ELSE [exc |-> "", numlinea |-> 2,
          res |-> [r EXCEPT !.fecha = split(fila[4])[1],
                            !.nominal = fila[13],
                            !.lote = replace(fila[15], <<"\n">>)]]

(* fila3 with the line-3 state left after one continuation row *)
fila3_sin_repetir(r, fila) ==
  IF ~ check_fila3(fila)
    THEN IF fila = <<>>
           THEN [exc |-> "IndexError", numlinea |-> 2, res |-> r]
           ELSE [exc |-> "", numlinea |-> 3,
                 res |-> [r EXCEPT !.lote = r.lote \o <<" ">> \o fila[1]]]
    ELSE LET g == parse_granza(r.lote)
         IN  IF g.exc
               THEN [exc |-> "", numlinea |-> 3,
                     res |-> [r EXCEPT !.granza = r.lote]]
               ELSE [exc |-> "", numlinea |-> 3,
                     res |-> [r EXCEPT !.granza = g.granza,
                                       !.lote = replace(r.lote, g.granza)]]

(* numlinea == 3 *)
fila3(r, fila) ==
  IF ~ check_fila3(fila)
    THEN IF fila = <<>>
           THEN [exc |-> "IndexError", numlinea |-> 2, res |-> r]
           ELSE [exc |-> "", numlinea |-> 2,
                 res |-> [r EXCEPT !.lote = r.lote \o <<" ">> \o fila[1]]]
    ELSE LET g == parse_granza(r.lote)
         IN  IF g.exc
               THEN [exc |-> "", numlinea |-> 3,
                     res |-> [r EXCEPT !.granza = r.lote]]
               ELSE [exc |-> "", numlinea |-> 3,
                     res |-> [r EXCEPT !.granza = g.granza,
                                       !.lote = replace(r.lote, g.granza)]]

(* any other numlinea *)
filaN(r, n, fila) ==
  IF fila = <<>> THEN [exc |-> "IndexError", numlinea |-> n, res |-> r]
  ELSE IF fila[1] = sAverage
    THEN IF Len(fila) < 5
           THEN [exc |-> "IndexError", numlinea |-> n, res |-> r]
           ELSE [exc |-> "", numlinea |-> n,
                 res |-> [r EXCEPT !.titulo = fila[2], !.elong = fila[4],
                                   !.ten = fila[5]]]
  ELSE IF fila[1] = sCV
    THEN IF Len(fila) < 5
           THEN [exc |-> "IndexError", numlinea |-> n, res |-> r]
           ELSE [exc |-> "", numlinea |-> n,
                 res |-> [r EXCEPT !.CVtitulo = fila[2], !.CVelong = fila[4],
                                   !.CVten = fila[5]]]
  ELSE [exc |-> "", numlinea |-> n, res |-> r]

(* the body of "for fila in reader" *)
loop(r, n, fila) ==
  IF n + 1 = 2 THEN fila2(r, fila)
  ELSE IF n + 1 = 3 THEN fila3(r, fila)
  ELSE filaN(r, n + 1, fila)

(***************************************************************************)
(* parse_source: the cleanup after the loop.                               *)
(***************************************************************************)
(* res['lote'].strip() and res['granza'].strip() raise on None *)
strip_raises(r) == r.lote = None \/ r.granza = None

strip_step(r) == [r EXCEPT !.lote = strip(r.lote), !.granza = strip(r.granza)]

(* codigo_step with the code stored without its leading space *)
codigo_step_sin_espacio(r) ==
  IF startswith(r.lote, <<"0">>)
    THEN [r EXCEPT !.codigo = split(r.lote)[1],
                   !.lote = join(from(split(r.lote), 1))]
    ELSE [r EXCEPT !.codigo = <<>>]

codigo_step(r) ==
  IF startswith(r.lote, <<"0">>)
    THEN [r EXCEPT !.codigo = <<" ">> \o split(r.lote)[1],
                   !.lote = join(from(split(r.lote), 1))]
    ELSE [r EXCEPT !.codigo = <<>>]

swap_step(r) ==
  IF startswith(upper(r.granza), sLO)
    THEN [r EXCEPT !.lote = r.granza, !.granza = r.lote]
    ELSE r

(* move_step that forgets to clear the batch field *)
move_step_sin_vaciar(r) ==
  IF ~ startswith(upper(r.lote), sLO)
    THEN [r EXCEPT !.granza = r.lote \o <<" ">> \o r.granza]
    ELSE r

move_step(r) ==
  IF ~ startswith(upper(r.lote), sLO)
    THEN [r EXCEPT !.granza = r.lote \o <<" ">> \o r.granza, !.lote = <<>>]
    ELSE r

overflow_step(r) ==
  IF Len(split(r.lote)) > 2
    THEN IF split(r.lote)[2] = sREPSOL
           THEN [r EXCEPT !.granza = join(from(split(r.lote), 1))]
           ELSE LET lote == join(upto(split(r.lote), 2))
                IN  [r EXCEPT !.lote = lote,
                              !.granza = join(from(split(lote), 2))
                                           \o <<" ">> \o r.granza]
    ELSE r

(***************************************************************************)
(* The exports read by the model: rows the csv reader can yield.           *)
(***************************************************************************)
Fecha1 == <<"2","6","/","0","9","/","2","0","1","6">>
Fecha2 == <<"2","7","/","0","9","/","2","0","1","6">>
Hora == <<" ","1","0",":","3","0">>
Nominal == <<"6",".","7">>

(* a line 2 of 15 columns: date and time in column 3, nominal titer in    *)
(* column 12, batch field in column 14 (0-based)                           *)
Line2(fechahora, nominal, lote) ==
  [i \in 1..15 |-> IF i = 4 THEN fechahora
                   ELSE IF i = 13 THEN nominal
                   ELSE IF i = 15 THEN lote ELSE sx]

Titulo == << <<"L","e","n","z","i","n","g">> >>
Blank == <<>>
Cabecera3 == << <<"N","o">>, sTiter, sx, sForce >>
AverageRow == << sAverage, <<"6",".","3">>, sx, <<"9","4",".","0","8">>,
                 <<"4","7",".","7","0">> >>
CVRow == << sCV, <<"6",".","7","5">>, sx, <<"2","3",".","7","6">>,
            <<"6",".","5","9">> >>
AverageCorta == << sAverage, <<"6",".","3">> >>
Cont78 == << s78 >>
Line2Corta == << sx, sx >>

(* batch fields as typed by the operator in column 14 of line 2 *)
LoteSet ==
  { join(<<sLOTE, s2378, sREPSOL, s050>>),
    join(<<sLOTE, s2378, s050, sREPSOL>>),
    join(<<sLOTE, s2378>>),
    join(<<sLOTE, s23>>),
    join(<<sLOTE, s2378, sE>>),
    join(<<sLOTE>>),
    join(<<s001, sLOTE, s2378>>),
    join(<<s001, sLOTE, s2378, sREPSOL>>),
    join(<<s001>>),
    join(<<sLOTE, sREPSOL, s050>>),
    join(<<sLOTE, sREPSOL, s050, sE>>),
    join(<<sLOTE, s2378, <<>>, sREPSOL>>),
    join(<<sREPSOL, s050, sLOTE, s2378>>),
    join(<<sREPSOL, s050>>),
    join(<<slote, s2378, sREPSOL>>),
    sLOTE \o <<"\n", " ">> \o s2378 \o <<" ">> \o sREPSOL,
    s001 \o <<"\f">> \o join(<<sLOTE, s2378>>),
    <<"<U+00A0>">> \o join(<<sLOTE, s2378, sREPSOL>>),
    join(<<sLOTE, s2378, <<"m", "<U+00B2>">>, sREPSOL>>),
    join(<<<<"l", "<U+00F3>", "t", "e">>, s2378, sREPSOL>>),
    <<>> }

Line1Rows == {Titulo, AverageRow, Blank}
Line2Rows ==
  {Line2(Fecha1 \o Hora, Nominal, l) : l \in LoteSet}
    \cup {Line2(<<"\f">> \o Fecha1 \o <<"\f">> \o Hora, Nominal,
                join(<<sLOTE, s2378, sREPSOL, s050>>)),
          Line2(<<"\f">>, Nominal, join(<<sLOTE, s2378, sREPSOL, s050>>)),
          Line2Corta}
BodyRows == {Cont78, Blank, Cabecera3, AverageRow, CVRow, AverageCorta}

(* the rows that may come as physical row number k of an export *)
RowsAt(k) == IF k = 1 THEN Line1Rows ELSE IF k = 2 THEN Line2Rows ELSE BodyRows

Paths == {"a.txt", "b.txt", "c.txt"}

EmptyDict == [d \in {} |-> <<>>]

(***************************************************************************)
(* parse_source as a process: pc is its position.                          *)
(***************************************************************************)
Init ==
  /\ filepath \in Paths
  /\ reader = <<>>
  /\ numlinea = 0
  /\ res = res0(filepath)
  /\ pc = "scan"
  /\ exc = ""
  /\ files = <<>>
  /\ data = EmptyDict
  /\ dpc = "idle"

dataVars == <<files, data, dpc>>

(* for fila in reader: the reader yields the next row.  The file is opened *)
(* with encoding "8859" (ISO 8859-1), in which every byte decodes, so the  *)
(* reader has no UnicodeDecodeError outcome; any other exception leaves    *)
(* parse_source, since only UnicodeDecodeError is caught.                  *)
ReadRow ==
  /\ pc = "scan"
  /\ Len(reader) < MaxRows
  /\ \E fila \in RowsAt(Len(reader) + 1) :
       LET s == loop(res, numlinea, fila)
       IN  /\ reader' = Append(reader, fila)
           /\ IF s.exc # ""
                THEN /\ pc' = "raised"
                     /\ exc' = s.exc
                     /\ UNCHANGED <<res, numlinea>>
                ELSE /\ res' = s.res
                     /\ numlinea' = s.numlinea
                     /\ UNCHANGED <<pc, exc>>
  /\ UNCHANGED <<filepath, dataVars>>

(* the reader is exhausted *)
EndOfFile ==
  /\ pc = "scan"
  /\ pc' = "strip"
  /\ UNCHANGED <<filepath, reader, numlinea, res, exc, dataVars>>

Strip ==
  /\ pc = "strip"
  /\ IF strip_raises(res)
       THEN pc' = "raised" /\ exc' = "AttributeError" /\ UNCHANGED res
       ELSE pc' = "codigo" /\ res' = strip_step(res) /\ UNCHANGED exc
  /\ UNCHANGED <<filepath, reader, numlinea, dataVars>>

Codigo ==
  /\ pc = "codigo"
  /\ res' = codigo_step(res)
  /\ pc' = "swap"
  /\ UNCHANGED <<filepath, reader, numlinea, exc, dataVars>>

Swap ==
  /\ pc = "swap"
  /\ res' = swap_step(res)
  /\ pc' = "move"
  /\ UNCHANGED <<filepath, reader, numlinea, exc, dataVars>>

Move ==
  /\ pc = "move"
  /\ res' = move_step(res)
  /\ pc' = "overflow"
  /\ UNCHANGED <<filepath, reader, numlinea, exc, dataVars>>

Overflow ==
  /\ pc = "overflow"
  /\ res' = overflow_step(res)
  /\ pc' = "done"
  /\ UNCHANGED <<filepath, reader, numlinea, exc, dataVars>>

Next == ReadRow \/ EndOfFile \/ Strip \/ Codigo \/ Swap \/ Move \/ Overflow

Spec == Init /\ [][Next]_vars

(***************************************************************************)
(* parse_source as a function of the whole file, for parse_data.           *)
(***************************************************************************)
RECURSIVE scan(_, _, _)
scan(r, n, rows) ==
  IF rows = <<>> THEN [exc |-> "", numlinea |-> n, res |-> r]
  ELSE LET s == loop(r, n, Head(rows))
       IN  IF s.exc # "" THEN s ELSE scan(s.res, s.numlinea, Tail(rows))

parse_source(path, rows) ==
  LET s == scan(res0(path), 0, rows)
  IN  IF s.exc # "" THEN [exc |-> s.exc, fecha |-> None, res |-> s.res]
      ELSE IF strip_raises(s.res)
        THEN [exc |-> "AttributeError", fecha |-> None, res |-> s.res]
      ELSE [exc |-> "", fecha |-> s.res.fecha,
            res |-> overflow_step(move_step(swap_step(codigo_step(
                      strip_step(s.res)))))]

(***************************************************************************)
(* parse_data: one parse_source call per discovered file, grouped by date. *)
(***************************************************************************)
Sample(fechahora, lote, body) ==
  <<Titulo, Line2(fechahora, Nominal, lote)>> \o body

(* contents of the exports found under the directory *)
SampleContents ==
  { Sample(Fecha1 \o Hora, join(<<sLOTE, s2378, sREPSOL, s050>>),
           <<Cabecera3, AverageRow, CVRow>>),
    Sample(Fecha1 \o Hora, join(<<sLOTE, s2378, s050, sREPSOL>>),
           <<Cabecera3>>),
    Sample(Fecha2 \o Hora, join(<<s001, sLOTE, s2378, sREPSOL>>),
           <<Cabecera3, CVRow>>),
    Sample(Fecha2, join(<<sLOTE, s23>>), <<Cont78, Cabecera3, AverageRow>>),
    <<Titulo>> }

(* append that replaces the list of an existing date *)
append_sobrescribe(d, fecha, valores) ==
  [k \in DOMAIN d \cup {fecha} |-> IF k = fecha THEN <<valores>> ELSE d[k]]

(* res[fecha].append(valores) on a defaultdict of lists *)
append(d, fecha, valores) ==
  IF fecha \in DOMAIN d
    THEN [d EXCEPT ![fecha] = Append(@, valores)]
    ELSE [k \in DOMAIN d \cup {fecha} |->
            IF k = fecha THEN <<valores>> ELSE d[k]]

InitData ==
  /\ filepath = "a.txt"
  /\ reader = <<>>
  /\ numlinea = 0
  /\ res = res0(filepath)
  /\ pc = "idle"
  /\ exc = ""
  /\ files = <<>>
  /\ data = EmptyDict
  /\ dpc = "running"

sourceVars == <<filepath, reader, numlinea, res, pc, exc>>

(* for filesource in find_samples(directory): the next path is yielded,    *)
(* parsed and its record appended                                          *)
NextFile ==
  /\ dpc = "running"
  /\ Len(files) < MaxFiles
  /\ \E path \in Paths \ {files[i].path : i \in 1..Len(files)} :
     \E rows \in SampleContents :
       LET p == parse_source(path, rows)
       IN  /\ files' = Append(files, [path |-> path, rows |-> rows])
           /\ IF p.exc # ""
                THEN dpc' = "raised" /\ UNCHANGED data
                ELSE data' = append(data, p.fecha, p.res) /\ UNCHANGED dpc
  /\ UNCHANGED sourceVars

(* find_samples is exhausted: return res *)
Return ==
  /\ dpc = "running"
  /\ dpc' = "returned"
  /\ UNCHANGED <<files, data, sourceVars>>

NextData == NextFile \/ Return

SpecData == InitData /\ [][NextData]_vars

(***************************************************************************)
(* Vocabulary of the properties.                                           *)
(***************************************************************************)
(* Python's fila[k], None when the row has no such column *)
Col(fila, k) == IF k + 1 <= Len(fila) THEN fila[k + 1] ELSE None

(* the row read by the step being taken *)
LastRow(rows) == rows[Len(rows)]

(* a step of the scan that reads one more row *)
ReadsRow == pc = "scan" /\ Len(reader') = Len(reader) + 1

(* sub occurs in cad *)
Contains(cad, sub) ==
  \E i \in 1..(Len(cad) - Len(sub) + 1) : SubSeq(cad, i, i + Len(sub) - 1) = sub

(* cad begins, case-insensitively, with "LO" *)
BeginsLO(cad) == Len(cad) >= 2 /\ cad[1] \in {"L", "l"} /\ cad[2] \in {"O", "o"}

(* the first whitespace-delimited token of a trimmed string *)
RECURSIVE FirstToken(_)
FirstToken(cad) ==
  IF cad = <<>> \/ Head(cad) \in Whitespace THEN <<>>
  ELSE <<Head(cad)>> \o FirstToken(Tail(cad))

(* B + " " + c1 + ... + " " + ck for the rows 3..k of the file, B being    *)
(* the batch field of line 2                                               *)
RECURSIVE Accumulated(_, _)
Accumulated(rows, k) ==
  IF k <= 2 THEN replace(rows[2][15], <<"\n">>)
  ELSE Accumulated(rows, k - 1) \o <<" ">> \o rows[k][1]

(* position of the first row after line 2 carrying both markers *)
HeaderAt(rows) ==
  CHOOSE i \in 3..Len(rows) :
    check_fila3(rows[i]) /\ \A j \in 3..(i - 1) : ~ check_fila3(rows[j])

(* the batch field accumulated when the genuine line-3 header arrives *)
BatchField(rows) == Accumulated(rows, HeaderAt(rows) - 1)

(***************************************************************************)
(* Properties.                                                             *)
(***************************************************************************)
(* C1: parse_source never raises, whatever the rows of the file are, and   *)
(* the record it returns carries the input path as source.                 *)
C1_NeverRaises ==
  /\ pc # "raised"
  /\ pc = "done" => res.source = filepath

(* C2: a batch field "T0 T1 M1 ... Mk" at the header (single spaces, T0    *)
(* begins with LO, T1 has a digit, M1 has no digit and does not begin with *)
(* LO) is returned as batch_id "T0 T1" and material_type "M1 ... Mk".      *)
C2_Form(cad) ==
  LET t == SplitOn(cad, {" "})
  IN  /\ Len(t) >= 3
      /\ \A i \in 1..Len(t) : t[i] # <<>> /\ \A j \in 1..Len(t[i]) : t[i][j] \notin Whitespace
      /\ startswith(t[1], sLO)
      /\ any_number(t[2])
      /\ ~ any_number(t[3])
      /\ ~ startswith(t[3], sLO)

C2_SplitsBatchAndMaterial ==
  pc = "done" =>
    LET cad == BatchField(reader)
        t == SplitOn(cad, {" "})
    IN  C2_Form(cad) =>
          /\ res.lote = t[1] \o <<" ">> \o t[2]
          /\ res.granza = join(from(t, 2))

(* C3: in a returned record with a non-empty material_type, batch_id does  *)
(* not contain material_type as a substring.                               *)
C3_NoOverlap ==
  (pc = "done" /\ res.granza # <<>>) => ~ Contains(res.lote, res.granza)

(* C4: after line 2, every row with a first column c that lacks one of the *)
(* markers keeps the extractor in the line-3 state and only appends " " + c*)
(* to the batch field, so the batch field seen by the first marker row is  *)
(* B + " " + c1 + ... + " " + ck; the material is split only on that       *)
(* marker row, once, and no row from line 2 up to it sets a measurement.   *)
C4_Continuation ==
  /\ [](pc = "scan" /\ numlinea = 2 =>
          /\ res.lote = Accumulated(reader, Len(reader))
          /\ res.granza = None)
  /\ [][(ReadsRow /\ numlinea = 2 /\ LastRow(reader') # <<>>
           /\ ~ check_fila3(LastRow(reader'))) =>
          /\ pc' = "scan"
          /\ numlinea' = 2
          /\ res' = [res EXCEPT !.lote = res.lote \o <<" ">> \o LastRow(reader')[1]]]_vars
  /\ [][(ReadsRow /\ numlinea = 2 /\ check_fila3(LastRow(reader'))) =>
          /\ pc' = "scan"
          /\ numlinea' = 3
          /\ res'.granza # None
          /\ \A f \in {"titulo", "elong", "ten", "CVtitulo", "CVelong", "CVten"} :
               res'[f] = res[f]]_vars
  /\ [][(pc = "scan" /\ res'.granza # res.granza) =>
          numlinea = 2 /\ check_fila3(LastRow(reader'))]_vars
  /\ [][numlinea >= 3 => numlinea' >= 3]_vars

(* C4 witness: "LOTE 23" continued by a row "78", then the header *)
C4_Witness ==
  /\ pc = "scan"
  /\ numlinea = 3
  /\ Len(reader) = 4
  /\ reader[3] = Cont78
  /\ check_fila3(reader[4])
  /\ reader[2][15] = join(<<sLOTE, s23>>)
  /\ res.lote = join(<<sLOTE, s23, s78>>)

(* C5: while no parse_source call has raised, and so when parse_data       *)
(* returns, the mapping has one key per distinct date returned by          *)
(* parse_source; the list of a date holds exactly the records of the files *)
(* with that date, in discovery order, each carrying that date; every file *)
(* has its record, so there are as many records as files.                  *)
C5_Grouping ==
  dpc # "raised" =>
    LET n == Len(files)
        ps == [i \in 1..n |-> parse_source(files[i].path, files[i].rows)]
    IN  /\ DOMAIN data = {ps[i].fecha : i \in 1..n}
        /\ \A d \in DOMAIN data :
             LET sel == SelectSeq(ps, LAMBDA p : p.fecha = d)
             IN  /\ data[d] = [i \in 1..Len(sel) |-> sel[i].res]
                 /\ \A i \in 1..Len(data[d]) : data[d][i].fecha = d
        /\ \A i \in 1..n : \E k \in 1..Len(data[ps[i].fecha]) :
             data[ps[i].fecha][k].source = files[i].path

(* C5 witness: two files of the same date, one list of two records *)
C5_Witness ==
  /\ dpc = "returned"
  /\ Len(files) = 2
  /\ files[1].rows # files[2].rows
  /\ DOMAIN data = {Fecha1}
  /\ Len(data[Fecha1]) = 2
  /\ data[Fecha1][1].source = files[1].path
  /\ data[Fecha1][2].source = files[2].path

(* C6: a row that is neither line 2 nor a line-3 row sets exactly the three*)
(* Average fields or the three CV% fields from columns 1, 3, 4 when its    *)
(* first column is "Average" or "CV%", and otherwise (line 1 and blank     *)
(* rows included) leaves the record unchanged; the scan continues.         *)
C6_OtherRows ==
  [][(ReadsRow /\ numlinea + 1 # 2 /\ numlinea + 1 # 3) =>
       LET fila == LastRow(reader')
       IN  /\ pc' = "scan"
           /\ IF Col(fila, 0) = sAverage
                THEN res' = [res EXCEPT !.titulo = Col(fila, 1),
                                        !.elong = Col(fila, 3),
                                        !.ten = Col(fila, 4)]
              ELSE IF Col(fila, 0) = sCV
                THEN res' = [res EXCEPT !.CVtitulo = Col(fila, 1),
                                        !.CVelong = Col(fila, 3),
                                        !.CVten = Col(fila, 4)]
              ELSE res' = res]_vars

(* C7: the code step turns a trimmed batch field beginning with "0" into   *)
(* material_code " " + first token and batch field = the remaining tokens  *)
(* joined by single spaces; otherwise material_code is "" and the batch    *)
(* field is unchanged.                                                     *)
C7_CodeExtraction ==
  [][(pc = "codigo" /\ pc' = "swap") =>
       IF res.lote # <<>> /\ Head(res.lote) = "0"
         THEN LET first == FirstToken(res.lote)
              IN  /\ res'.codigo = <<" ">> \o first
                  /\ res'.lote =
                       join(split(SubSeq(res.lote, Len(first) + 1, Len(res.lote))))
                  /\ res'.granza = res.granza
         ELSE /\ res'.codigo = <<>>
              /\ res'.lote = res.lote
              /\ res'.granza = res.granza]_vars

(* C7 witness: "001 LOTE 2378" gives " 001" and "LOTE 2378" *)
C7_Witness ==
  /\ pc = "swap"
  /\ reader[2][15] = join(<<s001, sLOTE, s2378>>)
  /\ res.codigo = <<" ">> \o s001
  /\ res.lote = join(<<sLOTE, s2378>>)

(* C8: parse_granza on the whitespace-delimited tokens of the batch field: *)
(* "" with fewer than 2 tokens; otherwise the tokens from index 3 when the *)
(* token at index 2 has a digit, else the tokens from index 2, joined by   *)
(* single spaces, also when more than one space separates the tokens.      *)
C8_Granza(cad) ==
  LET t == split(cad)
  IN  IF Len(t) < 2 THEN <<>>
      ELSE IF Len(t) >= 3 /\ any_number(t[3]) THEN join(from(t, 3))
      ELSE join(from(t, 2))

C8_ParseGranza ==
  [][(ReadsRow /\ numlinea = 2 /\ numlinea' = 3) =>
       /\ ~ parse_granza(res.lote).exc
       /\ res'.granza = C8_Granza(res.lote)]_vars

(* C9: the truncation of a batch field of more than two tokens b0 b1 b2 .. *)
(* (b1 not "REPSOL") leaves "b0 b1" and makes the material field           *)
(* "b2 ... bm" + " " + the previous material text.                         *)
C9_Truncation ==
  [][(pc = "overflow" /\ pc' = "done" /\ Len(split(res.lote)) > 2
        /\ split(res.lote)[2] # sREPSOL) =>
       LET b == split(res.lote)
       IN  /\ res'.lote = b[1] \o <<" ">> \o b[2]
           /\ res'.granza = join(from(b, 2)) \o <<" ">> \o res.granza]_vars

(* C10: the returned batch_id is empty or begins, case-insensitively, with *)
(* "LO": a batch field not beginning with LO after the swap is moved whole *)
(* in front of the material text and cleared, and the overflow step keeps  *)
(* the property.                                                           *)
C10_BatchIdLO ==
  /\ [](pc = "done" => (res.lote = <<>> \/ BeginsLO(res.lote)))
  /\ [][(pc = "move" /\ pc' = "overflow") =>
          IF BeginsLO(res.lote)
            THEN res' = res
            ELSE /\ res'.lote = <<>>
                 /\ res'.granza = res.lote \o <<" ">> \o res.granza]_vars
  /\ [][(pc = "overflow" /\ pc' = "done") =>
          /\ (res.lote = <<>> \/ BeginsLO(res.lote))
          /\ (res'.lote = <<>> \/ BeginsLO(res'.lote))]_vars

(* C10 witness: "REPSOL 050" is no batch identifier and ends as material *)
C10_Witness ==
  /\ pc = "done"
  /\ reader[2][15] = join(<<sREPSOL, s050>>)
  /\ res.lote = <<>>
  /\ res.granza = join(<<sREPSOL, s050, sREPSOL, s050>>)

====
